---- MODULE Spec2Model ----
(***************************************************************************)
(* A model of model.py: the attention-mechanism selection of               *)
(* CausalSelfAttention (construction, sparse-backend fallback, forward),   *)
(* the GPT model built from such layers (forward, crop_block_size) and the *)
(* diagnostic log sink the failure paths write to.                         *)
(***************************************************************************)
EXTENDS Integers, Sequences, FiniteSets, TLC

\* Number of transformer blocks of the model under study (config.n_layer).
NLayer == 1
\* Largest block_size a configuration is drawn with.
MaxBlock == 2
\* Last value of the wall clock (seconds, the resolution of the log-file names).
MaxTime == 1
\* Largest number of attention heads a configuration is drawn with.
MaxHead == 2

VARIABLES
  config,       \* GPTConfig: block_size, n_head, n_embd, bias and the toggles
  hasSDPA,      \* hasattr(torch.nn.functional, 'scaled_dot_product_attention')
  pc,           \* position of GPT.__init__: "constructing", "built", "raised"
  layers,       \* transformer.h[l]: the block's two normalizations and the
                \* attributes of its CausalSelfAttention
  wpe,          \* transformer.wpe.weight: the kept rows, named by original index
  files,        \* the log sink: file name -> lines written
  now,          \* datetime.now(), in seconds
  last,         \* the last operation performed on the model and what it did
  gen           \* GPT.generate: the call in progress and its last iteration

vars == <<config, hasSDPA, pc, layers, wpe, files, now, last, gen>>

Layers == 1..NLayer

Min(a, b) == IF a <= b THEN a ELSE b

Max(a, b) == IF a >= b THEN a ELSE b

-----------------------------------------------------------------------------
(* Tensors.                                                                *)

\* torch.tril(torch.ones(n, n)): bias[i][j] = 1 iff j <= i.
Tril(n) == [i \in 1..n |-> [j \in 1..n |-> IF j <= i THEN 1 ELSE 0]]

\* Length of x[:n] for a dimension of length len (Python slice semantics:
\* a negative n counts from the end, an n beyond the end is clamped).
SliceLen(len, n) == IF n >= 0 THEN Min(n, len) ELSE Max(len + n, 0)

\* x[:n] of a sequence.
SliceSeq(s, n) == SubSeq(s, 1, SliceLen(Len(s), n))

\* x[-n:] of a sequence (Python slice semantics: -0 is 0, so x[-0:] is all
\* of x, and a negative n gives x[|n|:]).
TailSeq(s, n) ==
  LET start == IF n > 0 THEN Max(Len(s) - n, 0) ELSE Min(0 - n, Len(s))
  IN  SubSeq(s, start + 1, Len(s))

\* x[a:b] of a sequence for 0 <= a and 0 <= b (clamped at the end).
Slice(s, a, b) == SubSeq(s, Min(a, Len(s)) + 1, Min(b, Len(s)))

\* m[:, :, :n, :n] of a square mask.
SliceMask(m, n) == [i \in 1..SliceLen(Len(m), n) |-> SliceSeq(m[i], n)]

\* float('-inf'): a value below every finite score, absorbing under addition.
NegInf == -999

\* (q @ k^T) * scale: T x T finite scores (their values play no role in
\* which weights are zero; every entry is the finite score 0).
Scores(T) == [i \in 1..T |-> [j \in 1..T |-> 0]]

\* att.masked_fill(mask == 0, -inf), the mask already of att's shape.
MaskedFill(att, mask) ==
  [i \in DOMAIN att |->
     [j \in DOMAIN att[i] |-> IF mask[i][j] = 0 THEN NegInf ELSE att[i][j]]]

\* att + mask: an additive mask (attn_mask_mode='add') is added to the scores.
AddMask(att, mask) ==
  [i \in DOMAIN att |->
     [j \in DOMAIN att[i] |->
        IF att[i][j] = NegInf THEN NegInf ELSE att[i][j] + mask[i][j]]]

\* F.softmax(att, dim=-1): the pairs (i, j) that get a nonzero weight are
\* those whose score is not -inf.
Softmax(att) ==
  {p \in (DOMAIN att) \X (DOMAIN att) : att[p[1]][p[2]] # NegInf}

-----------------------------------------------------------------------------
(* The log sink.                                                           *)

FileNames == {"deepspeed_error", "deepspeed_forward_error"} \X (0..MaxTime)

\* f"deepspeed_error_{timestamp}.log"
InitLogName(t) == <<"deepspeed_error", t>>

\* f"deepspeed_forward_error_{timestamp}.log"
ForwardLogName(t) == <<"deepspeed_forward_error", t>>

\* with open(name, "w") as f: f.write(msg) -- truncates what the file held.
WriteFile(fs, name, msg) == [fs EXCEPT ![name] = <<msg>>]

\* with open(name, "a") as f: f.write(msg)
AppendFile(fs, name, msg) == [fs EXCEPT ![name] = Append(@, msg)]

-----------------------------------------------------------------------------
(* CausalSelfAttention.__init__                                            *)

\* A block whose attention layer has not been constructed yet.
NoLayer ==
  [constructed |-> FALSE,
   active_attn_mechanism |-> "unknown",
   flash |-> FALSE, use_sparse_attn |-> FALSE, use_flash_attn |-> FALSE,
   ds_sparse_attn |-> "None", has_bias |-> FALSE, bias |-> <<>>,
   bias_registered |-> 0,
   error_log_file |-> <<"none", 0>>, first_forward_done |-> FALSE,
   n_head |-> 0, n_embd |-> 0, head_dim |-> 0, use_mqa |-> FALSE,
   c_attn |-> 0, use_rope |-> FALSE, has_inv_freq |-> FALSE,
   ln_1 |-> "none", ln_2 |-> "none"]

\* What the attempt to set up the sparse backend can do (lines 129-206):
\*   modern_ok     SparsityConfig and SparseSelfAttention construct
\*   legacy_ok     the modern path raises ImportError/AttributeError, the
\*                 FixedSparsityConfig path constructs
\*   legacy_fail   the modern path raises ImportError/AttributeError and the
\*                 legacy path raises too
\*   import_fail   deepspeed is not importable
\*   modern_raise  the modern path raises another exception (a constructor)
SparseInitOutcomes ==
  {"modern_ok", "legacy_ok", "legacy_fail", "import_fail", "modern_raise"}

SparseInitFailures == {"legacy_fail", "import_fail", "modern_raise"}

\* What the CUDA-extension compatibility check of the outer handler can do.
CudaOutcomes == {"compatible", "incompatible", "check_raises"}

\* The inputs of one construction: the sparse set-up outcome, the outcome of
\* the compatibility check, and whether each of the four writes to the log
\* (lines 195, 212, 228, 235) succeeds.
\* An input names the outcome of a step only if the construction reaches it
\* (a step that is not reached is given its first outcome).
CtorInputs(cfg) ==
  IF cfg.use_sparse_attn
    THEN {inp \in [init : SparseInitOutcomes, cuda : CudaOutcomes,
                   w : [1..4 -> BOOLEAN]] :
            LET outer == inp.init \in {"import_fail", "modern_raise"}
                           \/ (inp.init = "legacy_fail" /\ ~inp.w[1])
                check == outer /\ inp.w[2]
            IN  /\ inp.init # "legacy_fail" => inp.w[1]
                /\ ~outer => inp.w[2]
                /\ ~check => inp.cuda = "compatible"
                /\ ~(check /\ inp.cuda = "incompatible") => inp.w[3]
                /\ ~(check /\ (inp.cuda = "check_raises"
                               \/ (inp.cuda = "incompatible" /\ ~inp.w[3])))
                     => inp.w[4]}
    ELSE [init : {"not_attempted"}, cuda : {"compatible"},
          w : {[i \in 1..4 |-> TRUE]}]

UseFlashAttnAlways(cfg, sdpa) == cfg.use_flash_attn

\* self.use_flash_attn: the flag and the fused primitive's presence.
UseFlashAttn(cfg, sdpa) == cfg.use_flash_attn /\ sdpa

\* Lines 78-86: the output width of the QKV projection c_attn. With MQA it
\* is n_embd for the query heads plus one key head and one value head.
CAttnWidth(self) ==
  IF self.use_mqa THEN self.n_embd + 2 * self.head_dim ELSE 3 * self.n_embd

\* self.register_buffer("bias", torch.tril(torch.ones(bs, bs)))
RegisterBias(self, cfg) ==
  [self EXCEPT !.has_bias = TRUE, !.bias = Tril(cfg.block_size),
               !.bias_registered = cfg.block_size]

\* Lines 66-76: the dimensions and the MQA toggle.
Dimensions(cfg) ==
  [NoLayer EXCEPT !.n_head = cfg.n_head, !.n_embd = cfg.n_embd,
                  !.head_dim = cfg.n_embd \div cfg.n_head,
                  !.use_mqa = cfg.use_mqa]

\* Lines 78-95: the projection c_attn, and self.flash.
Projection(self, sdpa) ==
  [self EXCEPT !.c_attn = CAttnWidth(self), !.flash = sdpa]

\* Lines 96-100: if not self.flash, the mask is registered.
BiasUnlessFlash(self, cfg) ==
  IF ~self.flash THEN RegisterBias(self, cfg) ELSE self

\* Lines 103-106: the feature toggles.
Toggles(self, cfg, sdpa) ==
  [self EXCEPT !.use_sparse_attn = cfg.use_sparse_attn,
               !.use_rope = cfg.use_rope,
               !.use_flash_attn = UseFlashAttn(cfg, sdpa)]

\* Lines 109-112: if self.use_rope, the buffer inv_freq is registered.
RotaryBuffer(self) == [self EXCEPT !.has_inv_freq = self.use_rope]

BiasUnlessFlashOnly(self, cfg) == self

\* Lines 115-117: if not self.use_flash_attn, the mask is registered.
BiasUnlessFlashAttn(self, cfg) ==
  IF ~self.use_flash_attn THEN RegisterBias(self, cfg) ELSE self

\* The attributes set before the backend selection (lines 64-124).
LayerPrologue(cfg, sdpa, t) ==
  [BiasUnlessFlashAttn(
     RotaryBuffer(
       Toggles(BiasUnlessFlash(Projection(Dimensions(cfg), sdpa), cfg),
               cfg, sdpa)),
     cfg)
   EXCEPT !.error_log_file = InitLogName(t), !.ds_sparse_attn = "None"]

\* The sparse backend was constructed (lines 151-157 and 181-187).
SparseReady(self) ==
  [self EXCEPT !.ds_sparse_attn = "SparseSelfAttention",
               !.active_attn_mechanism = "deepspeed_sparse"]

\* The attributes an except handler sets (lines 202-204 and 219-221).
FallbackState(self) ==
  [self EXCEPT !.ds_sparse_attn = "None", !.use_sparse_attn = FALSE,
               !.active_attn_mechanism = "standard_fallback"]

\* The branches taken when use_sparse_attn is not set (lines 239-248).
PlainMechanism(self) ==
  [self EXCEPT !.active_attn_mechanism =
                 IF self.use_flash_attn THEN "flash" ELSE "standard"]

\* Line 234-236: the handler of the compatibility check appends to the log;
\* a failing append leaves the constructor by an exception.
CudaHandler(self, inp, fs, who) ==
  IF inp.w[4]
    THEN [raised |-> FALSE, self |-> self, write_failed |-> FALSE,
          files |-> AppendFile(fs, self.error_log_file,
                               <<"cuda_check_error", who>>)]
    ELSE [raised |-> TRUE, self |-> self, write_failed |-> TRUE,
          files |-> fs]

\* Lines 206-236: the outer handler writes the report, records the fallback
\* and checks the CUDA extension.
OuterHandler(self, inp, fs, who) ==
  IF ~inp.w[2]
    THEN [raised |-> TRUE, self |-> self, write_failed |-> TRUE,
          files |-> fs]
    ELSE LET fs2 == WriteFile(fs, self.error_log_file, <<"init_error", who>>)
             s2  == FallbackState(self)
         IN  CASE inp.cuda = "compatible" ->
                    [raised |-> FALSE, self |-> s2, write_failed |-> FALSE,
                     files |-> fs2]
               [] inp.cuda = "incompatible" ->
                    IF inp.w[3]
                      THEN [raised |-> FALSE, self |-> s2,
                            write_failed |-> FALSE,
                            files |-> AppendFile(fs2, self.error_log_file,
                                                 <<"cuda_incompatible", who>>)]
                      ELSE [CudaHandler(s2, inp, fs2, who)
                              EXCEPT !.write_failed = TRUE]
               [] inp.cuda = "check_raises" -> CudaHandler(s2, inp, fs2, who)

\* Lines 190-204: the handler of the legacy attempt writes the report and
\* records the fallback; an exception of its write reaches the outer handler.
LegacyHandler(self, inp, fs, who) ==
  IF inp.w[1]
    THEN [raised |-> FALSE, self |-> FallbackState(self),
          write_failed |-> FALSE,
          files |-> WriteFile(fs, self.error_log_file, <<"legacy_error", who>>)]
    ELSE [OuterHandler(self, inp, fs, who) EXCEPT !.write_failed = TRUE]

\* Lines 126-248: the mechanism of a layer s whose prologue ran: the sparse
\* set-up and its handlers when use_sparse_attn is set, the plain branches
\* otherwise.
SelectMechanism(s, inp, fs, who) ==
  IF s.use_sparse_attn
    THEN CASE inp.init \in {"modern_ok", "legacy_ok"} ->
                [raised |-> FALSE, self |-> SparseReady(s),
                 write_failed |-> FALSE, files |-> fs]
           [] inp.init = "legacy_fail" -> LegacyHandler(s, inp, fs, who)
           [] OTHER -> OuterHandler(s, inp, fs, who)
    ELSE [raised |-> FALSE, self |-> PlainMechanism(s),
          write_failed |-> FALSE, files |-> fs]

\* The layer exists once its constructor returned.
EndOfInit(r) == [r EXCEPT !.self.constructed = ~r.raised]

\* CausalSelfAttention.__init__(config) at time t with the log sink fs:
\* whether it raised, the layer, and the log sink afterwards. who names the
\* failure a report is about (the layer), so that reports can be told apart.
CausalSelfAttentionInit(cfg, sdpa, inp, fs, t, who) ==
  EndOfInit(SelectMechanism(LayerPrologue(cfg, sdpa, t), inp, fs, who))

-----------------------------------------------------------------------------
(* CausalSelfAttention.forward                                             *)

\* What one forward call of a layer did.
\*   projected      the QKV projection ran
\*   invoked        the backends called: "flash" (the fused primitive),
\*                  "sparse" (ds_sparse_attn)
\*   path           the code that produced y: "flash", "sparse", "dense"
\*                  (lines 344-349), "sparse_fallback" (lines 337-342)
\*   weights        the pairs (i, j) with a nonzero attention weight
\*   read_bias      the Dense steps ran and read self.bias[:,:,:T,:T]
\*   had_bias       the layer had the buffer bias when it was read
\*   bias_side      the side of the buffer when it was read
\*   qkv            the slices of the projection's output taken as Q, K, V
\*   q, k, v        the per-head tensors handed to the backend
\*   ln_1, ln_2     the normalizations the block applied around the call
NoCall ==
  [called |-> FALSE, T |-> 0, projected |-> FALSE, invoked |-> {},
   path |-> "none", outcome |-> "none", sparse_raised |-> FALSE,
   write_failed |-> FALSE, weights |-> {},
   read_bias |-> FALSE, had_bias |-> FALSE, bias_side |-> 0,
   qkv |-> [q |-> <<>>, k |-> <<>>, v |-> <<>>],
   q |-> <<>>, k |-> <<>>, v |-> <<>>, ln_1 |-> "none", ln_2 |-> "none"]

\* One head's tensor: the columns of the projection's output it is made
\* of, and the positions whose rotation RoPE applied to it (none at first).
HeadTensor(cols) == [cols |-> cols, rotary |-> <<>>]

\* x.view(B, T, n_head, hs).transpose(1, 2): head h holds the h-th run of
\* hs columns.
HeadView(cols, n_head, hs) ==
  [h \in 1..n_head |-> HeadTensor(SubSeq(cols, (h - 1) * hs + 1, h * hs))]

ExpandFirstOnly(cols, n_head) ==
  [h \in 1..n_head |-> HeadTensor(IF h = 1 THEN cols ELSE <<>>)]

\* x.unsqueeze(1).expand(B, n_head, T, hs): every head holds the one tensor.
Expand(cols, n_head) == [h \in 1..n_head |-> HeadTensor(cols)]

\* Lines 270-272: the MQA slices of the projection's output columns.
MQASplit(self) ==
  LET qkv == [i \in 1..self.c_attn |-> i]
  IN  [q |-> Slice(qkv, 0, self.n_embd),
       k |-> Slice(qkv, self.n_embd, self.n_embd + self.head_dim),
       v |-> TailSeq(qkv, self.head_dim)]

\* Line 283: self.c_attn(x).split(self.n_embd, dim=2)
StandardSplit(self) ==
  LET qkv == [i \in 1..self.c_attn |-> i]
  IN  [q |-> Slice(qkv, 0, self.n_embd),
       k |-> Slice(qkv, self.n_embd, 2 * self.n_embd),
       v |-> Slice(qkv, 2 * self.n_embd, 3 * self.n_embd)]

\* apply_rotary_pos_emb (lines 48-55) with the cos and sin of
\* _get_rotary_embeddings(T) (lines 250-254): they have shape (1, 1, T, hs),
\* so every head is rotated by the angles of positions 0..T-1.
ApplyRotaryPosEmb(x, T) ==
  [h \in DOMAIN x |-> [x[h] EXCEPT !.rotary = [t \in 1..T |-> t - 1]]]

\* Lines 289-291: RoPE rotates x when the layer uses it.
Rotary(self, x, T) == IF self.use_rope THEN ApplyRotaryPosEmb(x, T) ELSE x

\* Lines 274-286: the per-head K (and V) of a slice: the one head expanded
\* with MQA, a view of n_head heads otherwise.
KeyValueHeads(self, cols) ==
  IF self.use_mqa THEN Expand(cols, self.n_head)
  ELSE HeadView(cols, self.n_head, self.head_dim)

\* Lines 274-291: the per-head Q, K and V of the slices parts, with RoPE on
\* Q and K.
SplitHeads(self, parts, T) ==
  [qkv |-> parts,
   q |-> Rotary(self, HeadView(parts.q, self.n_head, self.head_dim), T),
   k |-> Rotary(self, KeyValueHeads(self, parts.k), T),
   v |-> KeyValueHeads(self, parts.v)]

\* Lines 266-291: the projection, its split into per-head Q, K and V, and
\* RoPE on Q and K.
Project(self, T) ==
  SplitHeads(self,
             IF self.use_mqa THEN MQASplit(self) ELSE StandardSplit(self), T)

\* The exceptions a sparse backend raises in a call (their text and
\* traceback go into the report, lines 326-328).
BackendErrors == {"RuntimeError", "ValueError"}

\* The inputs of one forward call of a layer: whether the sparse backend
\* raises, with which exception, and whether the write of the report (line
\* 330) succeeds.
\* Only a call that takes the sparse branch meets the first, only a
\* raising backend the others, and only a written report tells the
\* exception.
CallInputs(self) ==
  IF ~self.use_flash_attn /\ self.use_sparse_attn
       /\ self.ds_sparse_attn # "None"
    THEN {[raises |-> FALSE, w |-> TRUE, error |-> "RuntimeError"],
          [raises |-> TRUE, w |-> FALSE, error |-> "RuntimeError"]}
           \cup {[raises |-> TRUE, w |-> TRUE, error |-> e] :
                   e \in BackendErrors}
    ELSE {[raises |-> FALSE, w |-> TRUE, error |-> "RuntimeError"]}

\* A mask of shape (s, s) broadcast to (T, T): legal iff s = T or s = 1.
Broadcastable(m, T) == Len(m) = T \/ Len(m) = 1

Broadcast(m, T) ==
  [i \in 1..T |-> [j \in 1..T |->
     m[IF Len(m) = 1 THEN 1 ELSE i][IF Len(m) = 1 THEN 1 ELSE j]]]

\* Lines 345-349 (and 338-342): scaled QK^T, -inf where bias[:,:,:T,:T] is
\* 0, softmax; an exception when the layer has no bias or the sliced mask
\* does not broadcast to (T, T).
DenseAttention(self, T) ==
  IF ~self.has_bias
    THEN [raised |-> TRUE, weights |-> {}]
    ELSE LET m == SliceMask(self.bias, T)
         IN  IF Broadcastable(m, T)
               THEN [raised |-> FALSE,
                     weights |-> Softmax(MaskedFill(Scores(T),
                                                    Broadcast(m, T)))]
               ELSE [raised |-> TRUE, weights |-> {}]

\* Lines 296-301: the fused primitive with is_causal=True.
FlashAttention(T) == Softmax(MaskedFill(Scores(T), Tril(T)))

\* Lines 311-319: the mask handed to the sparse backend is tril(ones(T, T)),
\* and the backend was built with attn_mask_mode='add' (lines 154, 184).
SparseAttention(T) == Softmax(AddMask(Scores(T), Tril(T)))

\* Lines 294, 302, 343: the branch forward takes.
SelectBackend(self) ==
  IF self.use_flash_attn THEN "flash"
  ELSE IF self.use_sparse_attn /\ self.ds_sparse_attn # "None" THEN "sparse"
  ELSE "dense"

ForwardAttributesDegrade(self, sparse_raised) ==
  IF sparse_raised
    THEN [self EXCEPT !.first_forward_done = TRUE, !.use_sparse_attn = FALSE]
    ELSE [self EXCEPT !.first_forward_done = TRUE]

\* The attributes forward assigns: _first_forward_done (lines 260-261), and
\* nothing in the handler of a raising sparse backend (lines 323-342).
ForwardAttributes(self, sparse_raised) ==
  [self EXCEPT !.first_forward_done = TRUE]

\* The call once the projection ran (lines 256-291).
Projected(T, proj) ==
  [NoCall EXCEPT !.called = TRUE, !.T = T, !.projected = TRUE,
                 !.qkv = proj.qkv, !.q = proj.q, !.k = proj.k, !.v = proj.v]

\* The call c ending in the Dense steps, whose result is dense.
OfDense(c, path, dense) ==
  [c EXCEPT !.path = path,
            !.outcome = IF dense.raised THEN "raised" ELSE "returned",
            !.weights = dense.weights]

\* Lines 293-349: the branch taken from the projected call base, and what
\* it computes.
AttnBranch(self, T, inp, backend, base) ==
  CASE backend = "flash" ->
         [base EXCEPT !.invoked = {"flash"}, !.path = "flash",
                      !.outcome = "returned",
                      !.weights = FlashAttention(T)]
    [] backend = "sparse" /\ ~inp.raises ->
         [base EXCEPT !.invoked = {"sparse"}, !.path = "sparse",
                      !.outcome = "returned",
                      !.weights = SparseAttention(T)]
    [] backend = "sparse" /\ inp.raises /\ ~inp.w ->
         [base EXCEPT !.invoked = {"sparse"}, !.path = "sparse_fallback",
                      !.sparse_raised = TRUE, !.write_failed = TRUE,
                      !.outcome = "raised"]
    [] OTHER ->
         OfDense([base EXCEPT
                    !.invoked = IF backend = "sparse" THEN {"sparse"}
                                ELSE {},
                    !.sparse_raised = (backend = "sparse"),
                    !.read_bias = TRUE, !.had_bias = self.has_bias,
                    !.bias_side = Len(self.bias)],
                 IF backend = "sparse" THEN "sparse_fallback" ELSE "dense",
                 DenseAttention(self, T))

\* The layer, the log sink and the call when forward ends (the report of
\* lines 325-331 is written when the sparse backend raised).
AttnResult(self, call, inp, fs, t, who) ==
  [self  |-> ForwardAttributes(self, call.sparse_raised),
   files |-> IF call.sparse_raised /\ ~call.write_failed
               THEN WriteFile(fs, ForwardLogName(t),
                              <<"forward_error", who, inp.error>>)
               ELSE fs,
   call  |-> call]

\* CausalSelfAttention.forward(x) with x of sequence length T.
AttnForward(self, T, inp, fs, t, who) ==
  AttnResult(self,
             AttnBranch(self, T, inp, SelectBackend(self),
                        Projected(T, Project(self, T))),
             inp, fs, t, who)

-----------------------------------------------------------------------------
(* GPT.generate: the arguments and the sampling of one token               *)

\* Token ids: a vocabulary of two tokens.
Vocab == {0, 1}

\* The logits a forward call can return for the last position.
Logits == [Vocab -> {0, 2}]

\* temperature arguments (positive; they divide the logits exactly).
Temperatures == {1, 2}

\* top_k arguments: <<>> is None, <<k>> is the integer k.
TopKs == {<<>>} \cup {<<k>> : k \in 1..(Cardinality(Vocab) + 1)}

\* max_new_tokens arguments.
NewTokens == {0, 1, 2}

\* The contexts generate is called with: one per length, up to one token
\* more than the largest block_size.
Contexts == {[i \in 1..n |-> i % 2] : n \in 0..(MaxBlock + 1)}

\* Line 614: idx if idx.size(1) <= block_size else idx[:, -block_size:]
CropContext(idx, block_size) ==
  IF Len(idx) <= block_size THEN idx ELSE TailSeq(idx, block_size)

\* Line 618: logits[:, -1, :] / temperature
Scale(logits, temperature) ==
  [t \in DOMAIN logits |-> logits[t] \div temperature]

\* v[:, [-1]] of v, _ = torch.topk(logits, k): the k-th largest logit,
\* counted with multiplicity.
KthLargest(logits, k) ==
  CHOOSE x \in {logits[t] : t \in DOMAIN logits} :
    /\ Cardinality({t \in DOMAIN logits : logits[t] > x}) < k
    /\ Cardinality({t \in DOMAIN logits : logits[t] >= x}) >= k

\* Lines 620-622: with top_k given, every logit below the k-th largest
\* becomes -inf.
TopKFilter(logits, top_k) ==
  IF top_k = <<>>
    THEN logits
    ELSE LET v == KthLargest(logits,
                             Min(top_k[1], Cardinality(DOMAIN logits)))
         IN  [t \in DOMAIN logits |->
                IF logits[t] < v THEN NegInf ELSE logits[t]]

\* Line 624: F.softmax(logits, dim=-1); the tokens with a nonzero
\* probability are those whose logit is not -inf.
SoftmaxSupport(logits) == {t \in DOMAIN logits : logits[t] # NegInf}

CatOverLast(idx, idx_next) ==
  IF idx = <<>> THEN <<idx_next>> ELSE [idx EXCEPT ![Len(idx)] = idx_next]

\* Line 628: torch.cat((idx, idx_next), dim=1)
Cat(idx, idx_next) == Append(idx, idx_next)

\* The call of generate in progress (or the last one) and what its last
\* iteration did.
\*   ctx      the idx argument          idx   the running sequence
\*   left     iterations still to run   cur   idx when the iteration began
\*   fed      idx_cond, the sequence handed to forward
\*   block_size  config.block_size as the iteration read it
\*   forward  the outcome of the forward call
\*   logits   the last position's logits that forward returned
\*   probs    the tokens with a nonzero probability after line 624
NoGen ==
  [pc |-> "idle", ctx |-> <<>>, max_new_tokens |-> 0, temperature |-> 1,
   top_k |-> <<>>, idx |-> <<>>, left |-> 0, stepped |-> FALSE,
   cur |-> <<>>, fed |-> <<>>, block_size |-> 0, forward |-> "none",
   logits |-> [t \in Vocab |-> 0], probs |-> {}]

-----------------------------------------------------------------------------
(* The tensors of a model: state_dict, named_parameters                    *)

\* A tensor registered by a module: its name (the block it belongs to, 0
\* for none, and the rest of the dotted name), the tensor object the name
\* refers to, its number of dimensions, and whether it is a parameter (else
\* a buffer).
Tensor(l, name, dim, param) ==
  [name |-> <<l, name>>, id |-> <<l, name>>, dim |-> dim, param |-> param]

\* LayerNorm (lines 31-38): weight, and bias when config.bias.
LayerNormTensors(l, weight, bias, has_bias) ==
  <<Tensor(l, weight, 1, TRUE)>>
    \o (IF has_bias THEN <<Tensor(l, bias, 1, TRUE)>> ELSE <<>>)

\* nn.Linear(..., bias=config.bias): weight, and bias when config.bias.
LinearTensors(l, weight, bias, has_bias) ==
  <<Tensor(l, weight, 2, TRUE)>>
    \o (IF has_bias THEN <<Tensor(l, bias, 1, TRUE)>> ELSE <<>>)

\* The tensors of transformer.h[l]: Block.__init__ (lines 373-384) with
\* CausalSelfAttention.__init__ (c_attn, c_proj, the buffers bias and
\* inv_freq) and MLP.__init__ (lines 358-363). The identity functions that
\* stand for ln_1 and ln_2 without use_layer_norm register nothing.
BlockTensors(l, cfg, sdpa) ==
  (IF cfg.use_layer_norm
     THEN LayerNormTensors(l, "ln_1.weight", "ln_1.bias", cfg.bias)
            \o LayerNormTensors(l, "ln_2.weight", "ln_2.bias", cfg.bias)
     ELSE <<>>)
  \o (IF ~sdpa \/ ~UseFlashAttn(cfg, sdpa)
        THEN <<Tensor(l, "attn.bias", 4, FALSE)>> ELSE <<>>)
  \o (IF cfg.use_rope THEN <<Tensor(l, "attn.inv_freq", 1, FALSE)>>
      ELSE <<>>)
  \o LinearTensors(l, "attn.c_attn.weight", "attn.c_attn.bias", cfg.bias)
  \o LinearTensors(l, "attn.c_proj.weight", "attn.c_proj.bias", cfg.bias)
  \o LinearTensors(l, "mlp.c_fc.weight", "mlp.c_fc.bias", cfg.bias)
  \o LinearTensors(l, "mlp.c_proj.weight", "mlp.c_proj.bias", cfg.bias)

RECURSIVE BlocksTensors(_, _, _, _)
\* The tensors of transformer.h[l..n_layer].
BlocksTensors(l, n_layer, cfg, sdpa) ==
  IF l > n_layer THEN <<>>
  ELSE BlockTensors(l, cfg, sdpa) \o BlocksTensors(l + 1, n_layer, cfg, sdpa)

\* The tensors of a GPT in registration order (lines 417-424); line 429
\* makes transformer.wte.weight a second name of lm_head's weight.
ModelTensors(cfg, n_layer, sdpa) ==
  <<[Tensor(0, "transformer.wte.weight", 2, TRUE)
       EXCEPT !.id = <<0, "lm_head.weight">>],
    Tensor(0, "transformer.wpe.weight", 2, TRUE)>>
  \o BlocksTensors(1, n_layer, cfg, sdpa)
  \o LayerNormTensors(0, "transformer.ln_f.weight", "transformer.ln_f.bias",
                      cfg.bias)
  \o <<Tensor(0, "lm_head.weight", 2, TRUE)>>

\* model.state_dict().keys(): every name, of parameters and buffers.
StateDictKeys(ts) == {ts[i].name : i \in 1..Len(ts)}

KeepDuplicate(ts, seen) == ts

RECURSIVE RemoveDuplicate(_, _)
\* named_parameters() yields a tensor object under its first name only.
RemoveDuplicate(ts, seen) ==
  IF ts = <<>> THEN <<>>
  ELSE IF Head(ts).id \in seen THEN RemoveDuplicate(Tail(ts), seen)
  ELSE <<Head(ts)>> \o RemoveDuplicate(Tail(ts), seen \cup {Head(ts).id})

IsParameter(t) == t.param

\* self.named_parameters() (line 565)
NamedParameters(ts) == RemoveDuplicate(SelectSeq(ts, IsParameter), {})

IsDecayed(t) == t.dim >= 2

IsNotDecayed(t) == t.dim < 2

\* Lines 565-575: the two optimizer groups of configure_optimizers (every
\* parameter requires grad), each the list of the tensor objects in it.
OptimGroups(ts) ==
  LET param_dict == NamedParameters(ts)
      ids(g) == [i \in 1..Len(g) |-> g[i].id]
  IN  [decay |-> ids(SelectSeq(param_dict, IsDecayed)),
       nodecay |-> ids(SelectSeq(param_dict, IsNotDecayed))]

-----------------------------------------------------------------------------
(* GPT.from_pretrained                                                     *)

\* The model_type arguments: the four supported ids and another one.
ModelTypes == {"gpt2", "gpt2-medium", "gpt2-large", "gpt2-xl", "gpt3"}

\* The override_args arguments, by their keys.
OverrideArgs == {{}, {"dropout"}, {"bias"}}

\* Lines 516-521: n_layer, n_head and n_embd of a supported model_type.
ConfigArgs(model_type) ==
  CASE model_type = "gpt2"        -> [n_layer |-> 12, n_head |-> 12,
                                      n_embd |-> 768]
    [] model_type = "gpt2-medium" -> [n_layer |-> 24, n_head |-> 16,
                                      n_embd |-> 1024]
    [] model_type = "gpt2-large"  -> [n_layer |-> 36, n_head |-> 20,
                                      n_embd |-> 1280]
    [] model_type = "gpt2-xl"     -> [n_layer |-> 48, n_head |-> 25,
                                      n_embd |-> 1600]

\* Lines 522-531: GPTConfig(**config_args): block_size 1024 and bias True
\* are forced, every toggle keeps its default (lines 402-406).
PretrainedConfig(model_type) ==
  [block_size |-> 1024, use_sparse_attn |-> FALSE, use_flash_attn |-> FALSE,
   use_layer_norm |-> FALSE, use_rope |-> FALSE, use_mqa |-> FALSE,
   bias |-> TRUE, n_head |-> ConfigArgs(model_type).n_head,
   n_embd |-> ConfigArgs(model_type).n_embd]

\* Lines 538-540: the state_dict keys of the GPT2LMHeadModel checkpoint of
\* n_layer blocks.
CheckpointKeys(n_layer) ==
  {<<0, n>> : n \in {"transformer.wte.weight", "transformer.wpe.weight",
                     "transformer.ln_f.weight", "transformer.ln_f.bias",
                     "lm_head.weight"}}
  \cup ((1..n_layer) \X
         {"ln_1.weight", "ln_1.bias", "attn.bias", "attn.masked_bias",
          "attn.c_attn.weight", "attn.c_attn.bias", "attn.c_proj.weight",
          "attn.c_proj.bias", "ln_2.weight", "ln_2.bias", "mlp.c_fc.weight",
          "mlp.c_fc.bias", "mlp.c_proj.weight", "mlp.c_proj.bias"})

\* Lines 535, 543, 544: the keys that do not end with one of the suffixes.
WithoutSuffix(keys, suffixes) == {k \in keys : k[2] \notin suffixes}

\* Line 545: the weights that are transposed when copied.
Transposed ==
  {"attn.c_attn.weight", "attn.c_proj.weight", "mlp.c_fc.weight",
   "mlp.c_proj.weight"}

\* What a call of from_pretrained did.
NoPretrained ==
  [model_type |-> "none", override_args |-> {}, sd_keys |-> {},
   sd_keys_hf |-> {}, copied |-> {}, transposed |-> {}]

\* GPT.from_pretrained(model_type, override_args) on an engine with or
\* without the fused primitive (lines 507-561): the outcome and what was
\* compared and copied. The asserts of lines 508, 511 and 548 and the
\* lookup sd[k] of a checkpoint key the model lacks (lines 552, 557) raise.
\* The shapes of tensors of equal names agree (lines 552, 557).
FromPretrainedCall(model_type, override_args, sdpa) ==
  LET call == [NoPretrained EXCEPT !.model_type = model_type,
                                   !.override_args = override_args]
  IN  IF model_type \notin {"gpt2", "gpt2-medium", "gpt2-large", "gpt2-xl"}
           \/ \E k \in override_args : k # "dropout"
        THEN [outcome |-> "contract_error", call |-> call]
        ELSE LET cfg == PretrainedConfig(model_type)
                 n_layer == ConfigArgs(model_type).n_layer
                 sd_keys == WithoutSuffix(
                              StateDictKeys(ModelTensors(cfg, n_layer, sdpa)),
                              {"attn.bias"})
                 sd_keys_hf == WithoutSuffix(CheckpointKeys(n_layer),
                                             {"attn.masked_bias", "attn.bias"})
                 compared == [call EXCEPT !.sd_keys = sd_keys,
                                          !.sd_keys_hf = sd_keys_hf]
             IN  IF Cardinality(sd_keys_hf) # Cardinality(sd_keys)
                      \/ ~(sd_keys_hf \subseteq sd_keys)
                   THEN [outcome |-> "raised", call |-> compared]
                   ELSE [outcome |-> "returned",
                         call |-> [compared EXCEPT
                                     !.copied = sd_keys_hf,
                                     !.transposed =
                                       {k \in sd_keys_hf :
                                          k[2] \in Transposed}]]

-----------------------------------------------------------------------------
(* GPT                                                                     *)

\* The last operation on the model. arg is the sequence length of a forward
\* call or the argument of crop_block_size; block_size_before is
\* config.block_size when the operation started; calls[l] is what the
\* operation's call of layer l did; pos_emb tells whether a forward call
\* added the absolute position embedding, ln_f is the normalization it
\* applied to the last block's output.
NoOp ==
  [op |-> "none", arg |-> 0, outcome |-> "none", block_size_before |-> 0,
   init_outcome |-> "not_attempted", write_failed |-> FALSE,
   calls |-> [l \in Layers |-> NoCall], pos_emb |-> FALSE, ln_f |-> "none",
   pretrained |-> NoPretrained, optim_groups |-> [decay |-> <<>>,
                                                  nodecay |-> <<>>]]

\* Sequence lengths of the forward calls.
SeqLens == 1..(MaxBlock + 1)

\* Arguments of crop_block_size.
CropArgs == (-1)..(MaxBlock + 1)

\* Block.forward (lines 386-389) of block k, whose attention call gave r:
\* x = x + attn(ln_1(x)), then x = x + mlp(ln_2(x)), the second only if the
\* first returned.
BlockForward(st, k, r) ==
  [layers |-> [st.layers EXCEPT ![k] = r.self],
   files  |-> r.files,
   calls  |-> [st.calls EXCEPT ![k] =
                 [r.call EXCEPT
                    !.ln_1 = st.layers[k].ln_1,
                    !.ln_2 = IF r.call.outcome = "raised" THEN "none"
                             ELSE st.layers[k].ln_2]],
   raised |-> r.call.outcome = "raised"]

RECURSIVE RunBlocks(_, _, _, _)
\* Lines 479-480: for block in self.transformer.h: x = block(x). st holds
\* the layers, the log sink, the calls made so far and whether one raised;
\* no further block runs after one raised.
RunBlocks(k, T, inps, st) ==
  IF k > NLayer \/ st.raised
    THEN st
    ELSE RunBlocks(k + 1, T, inps,
           BlockForward(st, k,
             AttnForward(st.layers[k], T, inps[k], st.files, now, k)))

\* Line 464: assert t <= self.config.block_size
SeqLenAllowed(t, block_size) == t <= block_size

CropAllowedAlways(block_size, current) == TRUE

\* Line 499: assert block_size <= self.config.block_size
CropAllowed(block_size, current) == block_size <= current

\* The state when GPT.__init__ begins, for a configuration of a given set.
Start(configs) ==
  /\ config \in configs
  /\ hasSDPA \in BOOLEAN
  /\ pc = "constructing"
  /\ layers = [l \in Layers |-> NoLayer]
  /\ wpe = [i \in 1..config.block_size |-> i]
  /\ files = [n \in FileNames |-> <<>>]
  /\ now = 0
  /\ last = NoOp
  /\ gen = NoGen

\* GPTConfig (lines 391-406): every block_size and use_flash_attn, the
\* given values of use_sparse_attn, of the toggles use_layer_norm, use_rope
\* and use_mqa and of bias, the given head counts, and two channels a head.
Configs(sparse, toggles, biases, heads) ==
  {c \in [block_size : 1..MaxBlock, use_sparse_attn : sparse,
          use_flash_attn : BOOLEAN, use_layer_norm : toggles,
          use_rope : toggles, use_mqa : toggles, bias : biases,
          n_head : heads, n_embd : {2 * h : h \in heads}] :
     c.n_embd = 2 * c.n_head}

\* The attention mechanisms: the toggles of the other features at their
\* defaults (lines 402-406), one head.
Init == Start(Configs(BOOLEAN, {FALSE}, {TRUE}, {1}))

\* Lines 375-381: ln_1 and ln_2 of a block are LayerNorm modules when
\* config.use_layer_norm is set and the identity function otherwise.
BlockNorm(cfg) == IF cfg.use_layer_norm THEN "LayerNorm" ELSE "identity"

\* Line 421: GPT.__init__ constructs the blocks one after the other (each
\* its normalizations, then its attention layer: lines 373-384); an
\* exception of a block's constructor leaves GPT.__init__.
ConstructLayer ==
  /\ pc = "constructing"
  /\ \E inp \in CtorInputs(config) :
     \E k \in {l \in Layers :
                  ~layers[l].constructed
                    /\ \A m \in 1..(l - 1) : layers[m].constructed} :
     \E r \in {CausalSelfAttentionInit(config, hasSDPA, inp, files, now, k)} :
           /\ layers' = [layers EXCEPT ![k] =
                           [r.self EXCEPT !.ln_1 = BlockNorm(config),
                                          !.ln_2 = BlockNorm(config)]]
           /\ files' = r.files
           /\ pc' = IF r.raised THEN "raised"
                    ELSE IF k = NLayer THEN "built" ELSE "constructing"
           /\ last' = [NoOp EXCEPT !.op = "construct", !.arg = k,
                         !.outcome = IF r.raised THEN "raised" ELSE "returned",
                         !.block_size_before = config.block_size,
                         !.init_outcome = inp.init,
                         !.write_failed = r.write_failed]
  /\ UNCHANGED <<config, hasSDPA, wpe, now, gen>>

AddsPositionEmbeddingAlways(cfg) == TRUE

\* Line 470: if not self.config.use_rope: ... tok_emb + pos_emb
AddsPositionEmbedding(cfg) == ~cfg.use_rope

\* Line 422: ln_f = LayerNorm(config.n_embd, bias=config.bias), whatever
\* config.use_layer_norm is.
FinalNorm(cfg) == "LayerNorm"

\* Lines 482-493 after the blocks ran to st: ln_f and the logits of the
\* last position (line 490: x[:, [-1], :] raises on an empty sequence).
AfterBlocks(st, T) ==
  [outcome |-> IF st.raised \/ T = 0 THEN "raised" ELSE "returned",
   layers |-> st.layers, files |-> st.files, calls |-> st.calls,
   pos_emb |-> AddsPositionEmbedding(config),
   ln_f |-> IF st.raised THEN "none" ELSE FinalNorm(config)]

\* GPT.forward(idx) with idx of sequence length T and no targets, on the
\* model (ls, fs): the assert of line 464, the position lookup of line 472
\* (made only without RoPE), the blocks (lines 479-480), ln_f (line 482)
\* and the last position's logits.
GPTForwardCall(T, inps, ls, fs) ==
  IF ~SeqLenAllowed(T, config.block_size)
       \/ (AddsPositionEmbedding(config) /\ Len(wpe) < T)
    THEN [outcome |-> IF ~SeqLenAllowed(T, config.block_size)
                        THEN "contract_error" ELSE "raised",
          layers |-> ls, files |-> fs, calls |-> NoOp.calls,
          pos_emb |-> FALSE, ln_f |-> "none"]
    ELSE AfterBlocks(RunBlocks(1, T, inps,
                               [layers |-> ls, files |-> fs,
                                calls |-> NoOp.calls, raised |-> FALSE]),
                     T)

\* The inputs of the layers' forward calls of one GPT.forward.
ForwardInputs ==
  {f \in [Layers -> [raises : BOOLEAN, w : BOOLEAN,
                      error : BackendErrors]] :
     \A l \in Layers : f[l] \in CallInputs(layers[l])}

\* GPT.forward(idx) with idx of sequence length T (lines 461-493).
GPTForward ==
  /\ pc = "built"
  /\ \E T \in SeqLens :
     \E inps \in ForwardInputs :
     \E r \in {GPTForwardCall(T, inps, layers, files)} :
           /\ layers' = r.layers
           /\ files' = r.files
           /\ last' = [NoOp EXCEPT !.op = "gpt_forward", !.arg = T,
                         !.outcome = r.outcome,
                         !.block_size_before = config.block_size,
                         !.calls = r.calls, !.pos_emb = r.pos_emb,
                         !.ln_f = r.ln_f]
  /\ UNCHANGED <<config, hasSDPA, pc, wpe, now, gen>>

\* A call of one layer's forward by a caller other than GPT.forward
\* (CausalSelfAttention is a module of its own; lines 256-354).
LayerForward ==
  /\ pc = "built"
  /\ \E l \in Layers, T \in SeqLens :
     \E inp \in CallInputs(layers[l]) :
     \E r \in {AttnForward(layers[l], T, inp, files, now, l)} :
           /\ layers' = [layers EXCEPT ![l] = r.self]
           /\ files' = r.files
           /\ last' = [NoOp EXCEPT
                         !.op = "attn_forward", !.arg = T,
                         !.outcome = r.call.outcome,
                         !.block_size_before = config.block_size,
                         !.calls = [NoOp.calls EXCEPT ![l] = r.call]]
  /\ UNCHANGED <<config, hasSDPA, pc, wpe, now, gen>>

\* GPT.crop_block_size(block_size) (lines 495-504).
CropBlockSize ==
  /\ pc = "built"
  /\ \E n \in CropArgs :
       IF ~CropAllowed(n, config.block_size)
         THEN /\ last' = [NoOp EXCEPT !.op = "crop_block_size", !.arg = n,
                            !.outcome = "contract_error",
                            !.block_size_before = config.block_size]
              /\ UNCHANGED <<config, wpe, layers>>
         ELSE /\ config' = [config EXCEPT !.block_size = n]
              /\ wpe' = SliceSeq(wpe, n)
              /\ layers' = [l \in Layers |->
                              IF layers[l].has_bias
                                THEN [layers[l] EXCEPT
                                        !.bias = SliceMask(@, n)]
                                ELSE layers[l]]
              /\ last' = [NoOp EXCEPT !.op = "crop_block_size", !.arg = n,
                            !.outcome = "returned",
                            !.block_size_before = config.block_size]
  /\ UNCHANGED <<hasSDPA, pc, files, now, gen>>

\* A second of wall-clock time passes.
Tick ==
  /\ now < MaxTime
  /\ now' = now + 1
  /\ UNCHANGED <<config, hasSDPA, pc, layers, wpe, files, last, gen>>

\* GPT.generate(idx, max_new_tokens, temperature, top_k) is called (lines
\* 606-611); with max_new_tokens = 0 the loop has no iteration and idx is
\* returned (line 630). One call of generate is followed to its end.
GenerateStart ==
  /\ pc = "built"
  /\ gen.pc = "idle"
  /\ \E ctx \in Contexts, n \in NewTokens, temp \in Temperatures,
        k \in TopKs :
       gen' = [NoGen EXCEPT !.pc = IF n = 0 THEN "returned" ELSE "running",
                            !.ctx = ctx, !.max_new_tokens = n,
                            !.temperature = temp, !.top_k = k,
                            !.idx = ctx, !.left = n]
  /\ UNCHANGED <<config, hasSDPA, pc, layers, wpe, files, now, last>>

\* One iteration of the loop of generate (lines 612-628), and the return of
\* line 630 after the last one. An exception of forward leaves generate.
GenerateStep ==
  /\ gen.pc = "running"
  /\ \E inps \in ForwardInputs, logits \in Logits :
     \E idx_cond \in {CropContext(gen.idx, config.block_size)} :
     \E r \in {GPTForwardCall(Len(idx_cond), inps, layers, files)} :
     \E probs \in {SoftmaxSupport(TopKFilter(Scale(logits, gen.temperature),
                                             gen.top_k))} :
       LET step == [gen EXCEPT !.stepped = TRUE, !.cur = gen.idx,
                               !.fed = idx_cond,
                               !.block_size = config.block_size,
                               !.forward = r.outcome]
       IN  /\ layers' = r.layers
           /\ files' = r.files
           /\ last' = [NoOp EXCEPT !.op = "generate", !.arg = Len(idx_cond),
                         !.outcome = r.outcome,
                         !.block_size_before = config.block_size,
                         !.calls = r.calls, !.pos_emb = r.pos_emb,
                         !.ln_f = r.ln_f]
           /\ IF r.outcome # "returned"
                THEN gen' = [step EXCEPT !.pc = "raised",
                                         !.logits = NoGen.logits,
                                         !.probs = {}]
                ELSE \E idx_next \in probs :
                       gen' = [step EXCEPT
                                 !.idx = Cat(gen.idx, idx_next),
                                 !.left = gen.left - 1,
                                 !.logits = logits, !.probs = probs,
                                 !.pc = IF gen.left = 1 THEN "returned"
                                        ELSE "running"]
  /\ UNCHANGED <<config, hasSDPA, pc, wpe, now>>

\* GPT.from_pretrained(model_type, override_args): a class method that
\* builds a model of its own and leaves the model under study alone. What
\* it does depends on nothing but its arguments and the engine, so one
\* call is followed, made before the model under study is constructed.
FromPretrained ==
  /\ pc = "constructing"
  /\ last.op = "none"
  /\ \E model_type \in ModelTypes, override_args \in OverrideArgs :
       LET r == FromPretrainedCall(model_type, override_args, hasSDPA)
       IN  last' = [NoOp EXCEPT !.op = "from_pretrained",
                                !.outcome = r.outcome,
                                !.block_size_before = config.block_size,
                                !.pretrained = r.call]
  /\ UNCHANGED <<config, hasSDPA, pc, layers, wpe, files, now, gen>>

\* GPT.configure_optimizers(...) (lines 563-587).
ConfigureOptimizers ==
  /\ pc = "built"
  /\ last' = [NoOp EXCEPT
                !.op = "configure_optimizers", !.outcome = "returned",
                !.block_size_before = config.block_size,
                !.optim_groups =
                  OptimGroups(ModelTensors(config, NLayer, hasSDPA))]
  /\ UNCHANGED <<config, hasSDPA, pc, layers, wpe, files, now, gen>>

\* The operations on the model. The clock only selects the names of the log
\* files, so it stands still here: everything happens within one second.
Next ==
  \/ ConstructLayer
  \/ GPTForward
  \/ LayerForward
  \/ CropBlockSize

Spec == Init /\ [][Next]_vars

\* The same operations with time passing between them.
NextClock ==
  \/ Next
  \/ Tick

SpecClock == Init /\ [][NextClock]_vars

\* Generation on a model without the sparse backend: the model is
\* constructed, cropped between calls of generate, and generate runs its
\* loop to the end before anything else happens.
InitGenerate == Start(Configs({FALSE}, {FALSE}, {TRUE}, {1}))

NextGenerate ==
  \/ ConstructLayer
  \/ gen.pc # "running" /\ CropBlockSize
  \/ GenerateStart
  \/ GenerateStep

SpecGenerate == InitGenerate /\ [][NextGenerate]_vars

\* The features of the architecture (normalization, RoPE, MQA, bias) on a
\* model without the sparse backend.
InitFeatures == Start(Configs({FALSE}, BOOLEAN, BOOLEAN, 1..MaxHead))

NextFeatures ==
  \/ ConstructLayer
  \/ GPTForward
  \/ LayerForward
  \/ FromPretrained
  \/ ConfigureOptimizers

SpecFeatures == InitFeatures /\ [][NextFeatures]_vars

-----------------------------------------------------------------------------
(* The claims.                                                             *)

\* The layer the last construction built, and whether its sparse set-up
\* succeeded.
Built == layers[last.arg]

SparseInitOk == last.init_outcome \in {"modern_ok", "legacy_ok"}

Constructed == last.op = "construct" /\ last.outcome = "returned"

\* The calls of layer forward the last operation made.
Calls == {l \in Layers : last.calls[l].called}

\* The recorded mechanism as C1 states it.
ClaimedMechanism(use_sparse, use_flash, sdpa, sparse_ok) ==
  IF use_sparse /\ sparse_ok THEN "deepspeed_sparse"
  ELSE IF ~use_sparse /\ use_flash /\ sdpa THEN "flash"
  ELSE "standard"

\* The recorded mechanism with the failed sparse set-up told apart.
RecordedMechanism(use_sparse, use_flash, sdpa, sparse_ok) ==
  IF use_sparse /\ sparse_ok THEN "deepspeed_sparse"
  ELSE IF use_sparse THEN "standard_fallback"
  ELSE IF use_flash /\ sdpa THEN "flash"
  ELSE "standard"

\* C1 as stated: a constructed layer records Sparse when use_sparse is set
\* and the backend initialises, else Flash when use_sparse is not set,
\* use_flash is set and the fused primitive exists, else Dense ('standard').
C1_Original ==
  Constructed =>
    Built.active_attn_mechanism =
      ClaimedMechanism(config.use_sparse_attn, config.use_flash_attn,
                       hasSDPA, SparseInitOk)

\* C1 (amended): a constructed layer records 'deepspeed_sparse' when
\* use_sparse is set and the backend initialises, 'standard_fallback' when
\* use_sparse is set and the backend does not initialise, else 'flash' when
\* use_flash is set and the fused primitive exists, else 'standard'; and
\* with use_sparse not set the constructor never raises (so use_flash set
\* without the fused primitive yields 'standard' and no error).
C1_RecordedMechanism ==
  /\ Constructed =>
       Built.active_attn_mechanism =
         RecordedMechanism(config.use_sparse_attn, config.use_flash_attn,
                           hasSDPA, SparseInitOk)
  /\ (last.op = "construct" /\ ~config.use_sparse_attn) =>
       last.outcome = "returned"

C1_Witness ==
  /\ Constructed
  /\ config.use_sparse_attn /\ ~SparseInitOk
  /\ config.use_flash_attn /\ ~hasSDPA
  /\ Built.active_attn_mechanism = "standard_fallback"

\* C2: every forward call of a layer whose recorded mechanism is Sparse
\* invokes the sparse backend and no other backend.
C2_SparseHasPrecedence ==
  \A l \in Calls :
    layers[l].active_attn_mechanism = "deepspeed_sparse" =>
      last.calls[l].invoked = {"sparse"}

\* C3: when use_sparse is set and the sparse set-up fails, the constructor
\* returns, the layer records 'standard_fallback', use_sparse_attn is
\* cleared, the backend handle is None and the log file has been written.
C3_FailureFallsBack ==
  (last.op = "construct" /\ last.init_outcome \in SparseInitFailures) =>
    /\ last.outcome = "returned"
    /\ Built.active_attn_mechanism = "standard_fallback"
    /\ ~Built.use_sparse_attn
    /\ Built.ds_sparse_attn = "None"
    /\ files[Built.error_log_file] # <<>>

\* C4: every forward call of a layer whose recorded mechanism is
\* 'standard_fallback' computes attention with the Dense algorithm.
C4_FallbackIsDense ==
  \A l \in Calls :
    layers[l].active_attn_mechanism = "standard_fallback" =>
      last.calls[l].path = "dense"

\* C5: a forward call (of a sequence within block_size) whose sparse
\* backend raises does not raise itself, and its attention is what the
\* Dense steps compute.
C5_CallFallsBack ==
  \A l \in Calls :
    (last.calls[l].sparse_raised /\ last.arg <= last.block_size_before) =>
      /\ last.calls[l].outcome = "returned"
      /\ last.calls[l].path = "sparse_fallback"
      /\ last.calls[l].weights = DenseAttention(layers[l], last.arg).weights

\* C6: a constructed layer's recorded mechanism is one of the four and not
\* 'unknown'; no operation changes a constructed layer's recorded
\* mechanism, use_sparse flag or backend handle; and the forward call that
\* follows a call whose sparse backend raised invokes the sparse backend.
C6_MechanismFixed ==
  /\ [](\A l \in Layers :
          layers[l].constructed =>
            layers[l].active_attn_mechanism \in
              {"standard", "flash", "deepspeed_sparse", "standard_fallback"})
  /\ [][\A l \in Layers :
          layers[l].constructed =>
            /\ layers'[l].active_attn_mechanism
                 = layers[l].active_attn_mechanism
            /\ layers'[l].use_sparse_attn = layers[l].use_sparse_attn
            /\ layers'[l].ds_sparse_attn = layers[l].ds_sparse_attn]_vars
  /\ [][\A l \in Layers :
          (last.calls[l].sparse_raised /\ last'.calls[l].called) =>
            "sparse" \in last'.calls[l].invoked]_vars

C6_Witness ==
  \E l \in Calls :
    /\ last.calls[l].sparse_raised
    /\ last.calls[l].outcome = "returned"
    /\ layers[l].first_forward_done
    /\ layers[l].active_attn_mechanism = "deepspeed_sparse"
    /\ layers[l].use_sparse_attn
    /\ layers[l].ds_sparse_attn = "SparseSelfAttention"

\* C7: a failing write of the log does not stop the fallback: the
\* constructor still returns a layer that records the fallback, and forward
\* still returns.
C7_WriteFailureHarmless ==
  /\ (last.op = "construct" /\ last.write_failed) =>
       /\ last.outcome = "returned"
       /\ Built.active_attn_mechanism = "standard_fallback"
  /\ \A l \in Calls :
       last.calls[l].write_failed => last.calls[l].outcome = "returned"

\* C8: in every forward call (of a sequence within block_size) that
\* returns, the weight from position i to position j is zero when j > i.
C8_Causal ==
  \A l \in Calls :
    (last.calls[l].outcome = "returned"
       /\ last.arg <= last.block_size_before) =>
      \A p \in last.calls[l].weights : p[2] <= p[1]

\* C9: a forward call with a sequence longer than block_size ends in the
\* contract error, before the QKV projection and before any backend runs.
C9_TooLongRejected ==
  (last.op \in {"gpt_forward", "attn_forward"}
     /\ last.arg > last.block_size_before) =>
    /\ last.outcome = "contract_error"
    /\ \A l \in Layers :
         ~last.calls[l].projected /\ last.calls[l].invoked = {}

\* C10: crop_block_size(n) with n above the current block_size ends in the
\* contract error and leaves block_size, the position-embedding table and
\* every layer unchanged; and block_size never increases.
C10_CropNeverGrows ==
  /\ [][config'.block_size <= config.block_size]_vars
  /\ [][(last'.op = "crop_block_size" /\ last'.arg > config.block_size) =>
          /\ last'.outcome = "contract_error"
          /\ UNCHANGED <<config, wpe, layers>>]_vars

C10_Witness ==
  /\ last.op = "crop_block_size"
  /\ last.arg > last.block_size_before
  /\ last.outcome = "contract_error"
  /\ config.block_size = last.block_size_before
  /\ Len(wpe) = config.block_size

\* C11: a call of generate that returns, returns a sequence of length
\* len(idx) + max_new_tokens that begins with the caller's context; and an
\* iteration whose forward call returned left the sequence it began with
\* in place and appended one token to it, also when forward was handed a
\* cropped context.
C11_GenerateAppends ==
  /\ gen.pc = "returned" =>
       /\ Len(gen.idx) = Len(gen.ctx) + gen.max_new_tokens
       /\ SubSeq(gen.idx, 1, Len(gen.ctx)) = gen.ctx
  /\ (gen.stepped /\ gen.forward = "returned") =>
       /\ Len(gen.idx) = Len(gen.cur) + 1
       /\ SubSeq(gen.idx, 1, Len(gen.cur)) = gen.cur
       /\ gen.idx[Len(gen.idx)] \in Vocab

C11_Witness ==
  /\ gen.pc = "returned"
  /\ gen.max_new_tokens = 2
  /\ Len(gen.ctx) >= 2
  /\ Len(gen.fed) >= 1
  /\ Len(gen.fed) < Len(gen.cur)
  /\ gen.idx[Len(gen.idx)] # gen.idx[Len(gen.idx) - 1]

\* C12: in every iteration of generate, forward is handed the last
\* min(current length, block_size) tokens of the running sequence, and
\* forward does not end in the sequence-length contract error.
C12_ForwardWithinBlock ==
  gen.stepped =>
    /\ Len(gen.fed) = Min(Len(gen.cur), gen.block_size)
    /\ gen.fed = SubSeq(gen.cur, Len(gen.cur) - Len(gen.fed) + 1,
                        Len(gen.cur))
    /\ gen.forward # "contract_error"

\* C13: in an iteration of a call with top_k = 1 whose forward returned,
\* exactly one token has a nonzero probability, and it is a token of the
\* highest logit.
C13_TopOneIsArgmax ==
  (gen.stepped /\ gen.forward = "returned" /\ gen.top_k = <<1>>) =>
    /\ Cardinality(gen.probs) = 1
    /\ \A t \in gen.probs : \A u \in Vocab : gen.logits[u] <= gen.logits[t]

\* The positions 0..T-1 whose rotation RoPE applies in a call of length T.
Positions(T) == [t \in 1..T |-> t - 1]

\* The columns a slice holds.
Cols(x) == {x[i] : i \in 1..Len(x)}

\* C15: a GPT forward call that returns applied exactly one positional
\* scheme: with use_rope set it did not add the absolute position
\* embedding and every layer handed its backend Q and K rotated by the
\* angles of the positions (every head of them, and not V); with use_rope
\* not set it added the position embedding and no layer rotated anything.
C15_OnePositionalScheme ==
  (last.op = "gpt_forward" /\ last.outcome = "returned") =>
    \A l \in Layers :
      LET c == last.calls[l]
      IN  /\ c.projected
          /\ \A h \in 1..layers[l].n_head : c.v[h].rotary = <<>>
          /\ IF config.use_rope
               THEN /\ ~last.pos_emb
                    /\ \A h \in 1..layers[l].n_head :
                         /\ c.q[h].rotary = Positions(last.arg)
                         /\ c.k[h].rotary = Positions(last.arg)
               ELSE /\ last.pos_emb
                    /\ \A h \in 1..layers[l].n_head :
                         c.q[h].rotary = <<>> /\ c.k[h].rotary = <<>>

C15_Witness ==
  /\ last.op = "gpt_forward" /\ last.outcome = "returned"
  /\ config.use_rope /\ ~last.pos_emb
  /\ last.arg = MaxBlock
  /\ config.n_head = MaxHead
  /\ \A l \in Layers :
       last.calls[l].k[MaxHead].rotary = Positions(MaxBlock)

\* C16: in every forward call of an MQA layer the projection's output of
\* width n_embd + 2 * head_dim is split into three slices that are
\* pairwise disjoint and cover it (n_embd columns of queries, head_dim of
\* the key head, head_dim of the value head), and every query head is
\* handed the same K and the same V, also when RoPE rotated K.
C16_MQASharedKV ==
  \A l \in Calls :
    layers[l].use_mqa =>
      LET c == last.calls[l]
          heads == 1..layers[l].n_head
      IN  /\ Cols(c.qkv.q) \cup Cols(c.qkv.k) \cup Cols(c.qkv.v)
                = 1..(layers[l].n_embd + 2 * layers[l].head_dim)
          /\ Cols(c.qkv.q) \cap Cols(c.qkv.k) = {}
          /\ Cols(c.qkv.q) \cap Cols(c.qkv.v) = {}
          /\ Cols(c.qkv.k) \cap Cols(c.qkv.v) = {}
          /\ Len(c.qkv.q) = layers[l].n_embd
          /\ Len(c.qkv.k) = layers[l].head_dim
          /\ Len(c.qkv.v) = layers[l].head_dim
          /\ \A h \in heads :
               /\ c.k[h].cols = c.qkv.k /\ c.v[h].cols = c.qkv.v
               /\ c.k[h] = c.k[1] /\ c.v[h] = c.v[1]
               /\ c.k[h].rotary =
                    IF layers[l].use_rope THEN Positions(c.T) ELSE <<>>

C16_Witness ==
  \E l \in Calls :
    /\ layers[l].use_mqa /\ layers[l].use_rope
    /\ layers[l].n_head = MaxHead
    /\ last.calls[l].outcome = "returned"
    /\ last.calls[l].T = MaxBlock
    /\ last.calls[l].k[MaxHead] = last.calls[l].k[1]
    /\ last.calls[l].k[1].cols # <<>>
    /\ last.calls[l].q[MaxHead] # last.calls[l].q[1]

\* C18: in a GPT forward call of a model with use_layer_norm not set,
\* every normalization applied is the identity: the two of each block and
\* the one applied to the last block's output.
C18_DisabledNormIsIdentity ==
  (last.op = "gpt_forward" /\ ~config.use_layer_norm) =>
    /\ \A l \in Calls :
         /\ last.calls[l].ln_1 = "identity"
         /\ last.calls[l].ln_2 \in {"identity", "none"}
    /\ last.ln_f \in {"identity", "none"}

\* The checkpoint's parameter names for the model_type of the last call of
\* from_pretrained: its keys without the mask buffers.
CheckpointParameters ==
  WithoutSuffix(CheckpointKeys(ConfigArgs(last.pretrained.model_type).n_layer),
                {"attn.masked_bias", "attn.bias"})

\* C14: a call of from_pretrained with a supported model_type and
\* override_args empty or only 'dropout' returns; the model's parameter
\* names (mask buffers left out) are the checkpoint's, every checkpoint
\* tensor is copied, and the transposed ones are those of the four weight
\* families.
C14_PretrainedKeysMatch ==
  (last.op = "from_pretrained"
     /\ last.pretrained.model_type \in
          {"gpt2", "gpt2-medium", "gpt2-large", "gpt2-xl"}
     /\ last.pretrained.override_args \subseteq {"dropout"}) =>
    /\ last.outcome = "returned"
    /\ last.pretrained.sd_keys = CheckpointParameters
    /\ last.pretrained.copied = CheckpointParameters
    /\ last.pretrained.transposed =
         {k \in CheckpointParameters : k[2] \in Transposed}

\* How many times a tensor occurs in a group.
Occurrences(g, id) == Cardinality({i \in 1..Len(g) : g[i] = id})

\* The parameters of the model under study, each with the tensor it names.
Parameters ==
  LET ts == ModelTensors(config, NLayer, hasSDPA)
  IN  {ts[i] : i \in {j \in 1..Len(ts) : ts[j].param}}

\* C17: configure_optimizers puts every distinct parameter tensor in
\* exactly one group, once: in the decayed group when it has two or more
\* dimensions, in the other when it has fewer; nothing else is in a group;
\* and the weight the token embedding shares with the output projection
\* is there once.
C17_OptimGroupsPartition ==
  last.op = "configure_optimizers" =>
    LET g == last.optim_groups
    IN  /\ \A p \in Parameters :
             /\ Occurrences(g.decay, p.id) = (IF p.dim >= 2 THEN 1 ELSE 0)
             /\ Occurrences(g.nodecay, p.id) = (IF p.dim < 2 THEN 1 ELSE 0)
        /\ \A i \in 1..Len(g.decay) :
             \E p \in Parameters : p.id = g.decay[i]
        /\ \A i \in 1..Len(g.nodecay) :
             \E p \in Parameters : p.id = g.nodecay[i]
        /\ Occurrences(g.decay \o g.nodecay, <<0, "lm_head.weight">>) = 1

C17_Witness ==
  /\ last.op = "configure_optimizers"
  /\ config.use_layer_norm /\ config.bias /\ config.use_rope
  /\ Occurrences(last.optim_groups.decay, <<0, "lm_head.weight">>) = 1
  /\ Occurrences(last.optim_groups.nodecay, <<NLayer, "ln_2.bias">>) = 1
  /\ Len(last.optim_groups.decay) = 2 + 4 * NLayer

\* C19: once the model is built, and so after every call of
\* crop_block_size that returned, config.block_size is the number of rows
\* of the position-embedding table and the side of every layer's mask,
\* every mask is the lower-triangular mask of that size, and the rows kept
\* are the first rows of the original table.
C19_CropKeepsShapes ==
  pc = "built" =>
    /\ Len(wpe) = config.block_size
    /\ wpe = [i \in 1..Len(wpe) |-> i]
    /\ \A l \in Layers :
         layers[l].has_bias =>
           /\ Len(layers[l].bias) = config.block_size
           /\ layers[l].bias = Tril(config.block_size)

\* C20: no step removes or changes a report the log sink holds: what a
\* file held stays at its beginning.
C20_ReportsPersist ==
  [][\A n \in FileNames :
       /\ Len(files[n]) <= Len(files'[n])
       /\ SubSeq(files'[n], 1, Len(files[n])) = files[n]]_vars


\* C21: whatever the flags and the outcome of the construction, a forward
\* call of sequence length T <= block_size that runs the Dense steps (the
\* Dense branch or the per-call fallback of the sparse branch) reads a mask
\* that exists: the layer has the buffer, the buffer was registered by the
\* constructor, its side when it is read is at least T, also after
\* crop_block_size, and the read does not raise.
C21_MaskReadExists ==
  \A l \in Calls :
    (last.calls[l].read_bias /\ last.calls[l].T <= last.block_size_before) =>
      /\ last.calls[l].had_bias
      /\ layers[l].bias_registered >= 1
      /\ last.calls[l].bias_side >= last.calls[l].T
      /\ Len(layers[l].bias) >= last.calls[l].T
      /\ last.calls[l].outcome = "returned"

\* GPT.forward, after crop_block_size made the masks smaller than they
\* were registered, runs the per-call fallback of a sparse layer, which
\* reads the cropped mask and returns.
C21_Witness ==
  /\ last.op = "gpt_forward"
  /\ \E l \in Calls :
       /\ last.calls[l].path = "sparse_fallback"
       /\ last.calls[l].read_bias
       /\ last.calls[l].T <= last.block_size_before
       /\ last.calls[l].bias_side < layers[l].bias_registered
       /\ last.calls[l].outcome = "returned"

====
